---- MODULE Spec2Model ----
(***************************************************************************)
(* pywFM: model of class FM (src/pywFM/__init__.py).                       *)
(*                                                                         *)
(* FM.__init__ stores the options and reads LIBFM_PATH; FM.run allocates   *)
(* temp files, writes the data sets, builds the libFM command line, calls  *)
(* the binary through the shell, parses the predictions file and the model *)
(* dump, reads the rlog, removes the temp files and returns a namedtuple.  *)
(*                                                                         *)
(* Text is a sequence of one-element strings.  The three marker texts of   *)
(* the model dump are single tokens following a "#" token.                 *)
(***************************************************************************)
EXTENDS Integers, Sequences, FiniteSets, TLC

VARIABLES
    \* ---- the process environment and the file system
    env_path,       \* whether os.environ holds LIBFM_PATH
    sh,             \* how /bin/sh reads "&>": as a redirection or as "&" then ">"
    files,          \* names of the temp files that exist
    fds,            \* names whose descriptor from mkstemp is still open
    content,        \* text of each temp file
    owner,          \* the run whose mkstemp made the existing file, or NoRun
    \* ---- FM objects
    fm,             \* the fields __init__ stored, or NoObject
    ctor,           \* how the constructor call ended
    \* ---- run calls
    pc, self, inp, paths, args, bin, rc, launches, created, result, log,
    \* ---- predictions parser (run, lines 193-197)
    out_read, segs, preds, ppc,
    \* ---- model dump parser (run, lines 203-222)
    model_text, lines, done_lines, out_iter, global_bias, weights,
    pairwise_interactions, mpc

varsPreds == <<out_read, segs, preds, ppc>>
varsModel == <<model_text, lines, done_lines, out_iter, global_bias, weights,
               pairwise_interactions, mpc>>
varsEnv == <<env_path, sh, files, fds, content, owner>>
varsObj == <<fm, ctor>>
varsRun == <<pc, self, inp, paths, args, bin, rc, launches, created,
             result, log>>
vars == <<varsEnv, varsObj, varsRun, varsPreds, varsModel>>

(***************************************************************************)
(* Text                                                                    *)
(***************************************************************************)
NL == "\n"
SP == " "
HASH == "#"
\* the text after '#' in the three marker strings of lines 212-214
GB == "global bias W0"
UN == "unary interactions Wj"
PW == "pairwise interactions Vj,f"

Digits == {"1", "2", "3", "4", "5"}

DigitVal(c) ==
    CASE c = "1" -> 1 [] c = "2" -> 2 [] c = "3" -> 3 [] c = "4" -> 4
      [] c = "5" -> 5 [] OTHER -> 0

\* None, and a present value v as <<v>>
None == <<>>

RECURSIVE SplitOn(_, _)
\* str.split(sep) for a one-character sep: always at least one segment
SplitOn(s, sep) ==
    IF \A i \in 1..Len(s) : s[i] # sep
    THEN <<s>>
    ELSE LET i == CHOOSE k \in 1..Len(s) :
                      s[k] = sep /\ \A j \in 1..(k - 1) : s[j] # sep
         IN  <<SubSeq(s, 1, i - 1)>> \o SplitOn(SubSeq(s, i + 1, Len(s)), sep)

\* str.splitlines(): like split('\n') but without a trailing empty segment
SplitLines(s) ==
    LET p == SplitOn(s, NL)
    IN  IF p[Len(p)] = <<>> THEN SubSeq(p, 1, Len(p) - 1) ELSE p

RECURSIVE Strip(_)
\* the whitespace float() ignores on both sides of its argument
Strip(s) ==
    IF s = <<>> THEN s
    ELSE IF Head(s) = SP THEN Strip(Tail(s))
    ELSE IF s[Len(s)] = SP THEN Strip(SubSeq(s, 1, Len(s) - 1))
    ELSE s

RECURSIVE DecimalVal(_)
DecimalVal(s) ==
    IF s = <<>> THEN 0
    ELSE 10 * DecimalVal(SubSeq(s, 1, Len(s) - 1)) + DigitVal(s[Len(s)])

\* float(s): [ok |-> FALSE] stands for ValueError
Float(s) ==
    LET t == Strip(s)
    IN  IF t # <<>> /\ \A i \in 1..Len(t) : t[i] \in Digits
        THEN [ok |-> TRUE, val |-> DecimalVal(t)]
        ELSE [ok |-> FALSE, val |-> 0]

\* line.startswith('#')
StartsWithHash(line) == line # <<>> /\ Head(line) = HASH

\* "#<marker text>" in line
Contains(line, marker) ==
    \E i \in 1..(Len(line) - 1) : line[i] = HASH /\ line[i + 1] = marker

RECURSIVE SeqsUpTo(_, _)
\* all sequences over S of length at most n
SeqsUpTo(S, n) ==
    IF n = 0 THEN {<<>>}
    ELSE LET shorter == SeqsUpTo(S, n - 1)
         IN  shorter \cup {Append(s, c) : s \in shorter, c \in S}

RECURSIVE JoinLines(_)
\* the lines of a file, each ended by a newline
JoinLines(ls) ==
    IF ls = <<>> THEN <<>> ELSE Head(ls) \o <<NL>> \o JoinLines(Tail(ls))

(***************************************************************************)
(* Predictions parser: run, lines 193-197                                  *)
(***************************************************************************)
MaxOutLen == 4
OutChars == {"1", "2", NL, SP, "x"}
\* "1.5\n2.5\n\n" with one-digit values
ExampleOut == <<"1", NL, "2", NL, NL>>
OutTexts == SeqsUpTo(OutChars, MaxOutLen) \cup {ExampleOut}

PredsIdle ==
    /\ out_read = <<>>
    /\ segs = <<>>
    /\ preds = <<>>
    /\ ppc = "idle"

\* preds = []; out_read = out_file.read()
PredsRead ==
    /\ ppc = "read"
    /\ segs' = SplitOn(out_read, NL)
    /\ preds' = <<>>
    /\ ppc' = "loop"
    /\ UNCHANGED out_read

\* a comprehension without its filter: every segment is converted
KeepSegmentAll(p) == TRUE

\* the filter of the comprehension: `if p`
KeepSegment(p) == p # <<>>

\* one element of [float(p) for p in out_read.split('\n') if p]
PredsStep ==
    /\ ppc = "loop"
    /\ segs # <<>>
    /\ LET p == Head(segs)
       IN  IF ~KeepSegment(p)
           THEN /\ preds' = preds
                /\ ppc' = "loop"
           ELSE IF Float(p).ok
           THEN /\ preds' = Append(preds, Float(p).val)
                /\ ppc' = "loop"
           ELSE /\ preds' = preds
                /\ ppc' = "raised"
    /\ segs' = Tail(segs)
    /\ UNCHANGED out_read

PredsEnd ==
    /\ ppc = "loop"
    /\ segs = <<>>
    /\ ppc' = "done"
    /\ UNCHANGED <<out_read, segs, preds>>

RECURSIVE PredsFold(_, _)
PredsFold(ss, acc) ==
    IF ss = <<>> THEN [ok |-> TRUE, preds |-> acc]
    ELSE IF ~KeepSegment(Head(ss)) THEN PredsFold(Tail(ss), acc)
    ELSE IF Float(Head(ss)).ok
    THEN PredsFold(Tail(ss), Append(acc, Float(Head(ss)).val))
    ELSE [ok |-> FALSE, preds |-> <<>>]

\* lines 194-197 as one function of the file's text
ParsePreds(text) == PredsFold(SplitOn(text, NL), <<>>)

(***************************************************************************)
(* Model dump parser: run, lines 203-222                                   *)
(***************************************************************************)
MaxLines == 3
\* "5.0", "1.0" "2.0", "0.1 0.2" "0.3 0.4" with one-digit values
ExampleDump ==
    JoinLines(<< <<HASH, GB>>, <<"5">>, <<HASH, UN>>, <<"1">>, <<"2">>,
                 <<HASH, PW>>, <<"1", SP, "2">>, <<"3", SP, "4">> >>)
DumpLines ==
    { <<HASH, GB>>, <<HASH, UN>>, <<HASH, PW>>, <<HASH, "x">>,
      <<HASH, UN, HASH, GB>>, <<"x", HASH, UN>>,
      <<"1">>, <<"2">>, <<"1", SP, "2">>, <<SP, "1">>, <<"x">>, <<>> }
ModelTexts ==
    {JoinLines(ls) : ls \in SeqsUpTo(DumpLines, MaxLines)} \cup {ExampleDump}

\* out_iter = 0 (line 207): if 0 its global bias; if 1, weights; if 2, pairwise
InitialSection == 0

ModelIdle ==
    /\ model_text = <<>>
    /\ lines = <<>>
    /\ done_lines = <<>>
    /\ out_iter = InitialSection
    /\ global_bias = None
    /\ weights = <<>>
    /\ pairwise_interactions = <<>>
    /\ mpc = "idle"

\* the if/elif chain of lines 212-214
MarkerSection(line, cur) ==
    IF Contains(line, GB) THEN 0
    ELSE IF Contains(line, UN) THEN 1
    ELSE IF Contains(line, PW) THEN 2
    ELSE cur

\* [float(x) for x in line.split(' ')]
RowOf(line) ==
    LET ws == SplitOn(line, SP)
    IN  IF \A i \in 1..Len(ws) : Float(ws[i]).ok
        THEN [ok |-> TRUE, val |-> [i \in 1..Len(ws) |-> Float(ws[i]).val]]
        ELSE [ok |-> FALSE, val |-> <<>>]

\* a loop body that looks for the markers in every line, '#' first or not
ModelStepAnyLine(st, line) ==
    IF Contains(line, GB) \/ Contains(line, UN) \/ Contains(line, PW)
    THEN [st EXCEPT !.out_iter = MarkerSection(line, st.out_iter)]
    ELSE IF StartsWithHash(line) THEN st
    ELSE IF st.out_iter = 0
    THEN IF Float(line).ok
         THEN [st EXCEPT !.global_bias = <<Float(line).val>>]
         ELSE [st EXCEPT !.ok = FALSE]
    ELSE IF st.out_iter = 1
    THEN IF Float(line).ok
         THEN [st EXCEPT !.weights = Append(@, Float(line).val)]
         ELSE [st EXCEPT !.ok = FALSE]
    ELSE IF RowOf(line).ok
    THEN [st EXCEPT !.pairwise_interactions = Append(@, RowOf(line).val)]
    ELSE [st EXCEPT !.ok = FALSE]

\* the body of the loop of line 209, on the parser's state st
ModelStep(st, line) ==
    IF StartsWithHash(line)
    THEN [st EXCEPT !.out_iter = MarkerSection(line, st.out_iter)]
    ELSE IF st.out_iter = 0
    THEN IF Float(line).ok
         THEN [st EXCEPT !.global_bias = <<Float(line).val>>]
         ELSE [st EXCEPT !.ok = FALSE]
    ELSE IF st.out_iter = 1
    THEN IF Float(line).ok
         THEN [st EXCEPT !.weights = Append(@, Float(line).val)]
         ELSE [st EXCEPT !.ok = FALSE]
    ELSE IF st.out_iter = 2
    THEN IF RowOf(line).ok
         THEN [st EXCEPT !.pairwise_interactions = Append(@, RowOf(line).val)]
         ELSE [st EXCEPT !.ok = FALSE]
    ELSE st

\* a parser that starts in the unary section
ModelState0Unary ==
    [ok |-> TRUE, out_iter |-> InitialSection + 1, global_bias |-> None,
     weights |-> <<>>, pairwise_interactions |-> <<>>]

\* lines 203-207: the parser's state before the first line
ModelState0 ==
    [ok |-> TRUE, out_iter |-> InitialSection, global_bias |-> None,
     weights |-> <<>>, pairwise_interactions |-> <<>>]

\* lines 203-208: the results start empty, the file is read whole
ModelOpen ==
    /\ mpc = "read"
    /\ lines' = SplitLines(model_text)
    /\ done_lines' = <<>>
    /\ out_iter' = ModelState0.out_iter
    /\ global_bias' = ModelState0.global_bias
    /\ weights' = ModelState0.weights
    /\ pairwise_interactions' = ModelState0.pairwise_interactions
    /\ mpc' = "loop"
    /\ UNCHANGED model_text

ModelLine ==
    /\ mpc = "loop"
    /\ lines # <<>>
    /\ LET st == ModelStep([ok |-> TRUE, out_iter |-> out_iter,
                            global_bias |-> global_bias, weights |-> weights,
                            pairwise_interactions |-> pairwise_interactions],
                           Head(lines))
       IN  /\ out_iter' = st.out_iter
           /\ global_bias' = st.global_bias
           /\ weights' = st.weights
           /\ pairwise_interactions' = st.pairwise_interactions
           /\ mpc' = IF st.ok THEN "loop" ELSE "raised"
    /\ done_lines' = Append(done_lines, Head(lines))
    /\ lines' = Tail(lines)
    /\ UNCHANGED model_text

ModelEnd ==
    /\ mpc = "loop"
    /\ lines = <<>>
    /\ mpc' = "done"
    /\ UNCHANGED <<model_text, lines, done_lines, out_iter, global_bias,
                   weights, pairwise_interactions>>

RECURSIVE ModelFold(_, _)
ModelFold(ls, st) ==
    IF ls = <<>> \/ ~st.ok THEN st ELSE ModelFold(Tail(ls), ModelStep(st, Head(ls)))

\* lines 203-222 as one function of the file's text
ParseModel(text) == ModelFold(SplitLines(text), ModelState0)

(***************************************************************************)
(* FM objects: __init__, lines 72-105                                      *)
(***************************************************************************)
Runs == {"r1", "r2"}
Objs == {"o1", "o2"}
NoRun == "none"
NoObject == [task |-> "", learning_method |-> "", rlog |-> FALSE, silent |-> FALSE]

Tasks == {"regression", "classification"}
\* the learning methods libFM knows, and one it does not
Methods == {"sgd", "sgda", "als", "mcmc", "other"}

\* task[0] (line 90)
FirstLetter(task) == IF task = "regression" THEN "r" ELSE "c"

\* the constructor arguments that decide what run does; num_iter, init_stdev,
\* k0, k1, k2, learn_rate, the regularizations, verbose and temp_path only
\* become argument values
CtorArgs == [task : Tasks, learning_method : Methods, rlog : BOOLEAN, silent : BOOLEAN]

\* lines 90-100: the fields of the new object
FieldsOf(a) ==
    [task |-> FirstLetter(a.task), learning_method |-> a.learning_method,
     rlog |-> a.rlog, silent |-> a.silent]

\* a constructor that stores the path without looking at it
LibfmPathMissingIgnored == FALSE

\* self.__libfm_path is None (line 104)
LibfmPathMissing == ~env_path

\* FM(...): lines 90-105
Construct(o, a) ==
    /\ ctor[o] = "none"
    /\ IF LibfmPathMissing
       THEN /\ ctor' = [ctor EXCEPT ![o] = "raised"]
            /\ fm' = fm
       ELSE /\ ctor' = [ctor EXCEPT ![o] = "ok"]
            /\ fm' = [fm EXCEPT ![o] = FieldsOf(a)]
    /\ UNCHANGED <<varsEnv, varsRun, varsPreds, varsModel>>

(***************************************************************************)
(* Temp files: tempfile.mkstemp, os.close, os.remove                       *)
(***************************************************************************)
Roles == {"train", "test", "out", "model", "rlog", "validation"}
NoPath == ""
\* the names mkstemp can return; a name stands for a path
TempNames ==
    <<"tmp01", "tmp02", "tmp03", "tmp04", "tmp05", "tmp06",
      "tmp07", "tmp08", "tmp09", "tmp10", "tmp11", "tmp12">>
NameSet == {TempNames[i] : i \in 1..Len(TempNames)}

\* mkstemp creates a file under a name no existing file has.  Names are
\* interchangeable, so the first unused one stands for whichever it picks.
FreshName(existing) ==
    TempNames[CHOOSE i \in 1..Len(TempNames) :
                  /\ TempNames[i] \notin existing
                  /\ \A j \in 1..(i - 1) : TempNames[j] \in existing]

Cfg(r) == fm[self[r]]

\* the record of a run call: its file operations in order, and which kinds of
\* them it made while the libFM it launched had not yet ended
LogEvent(r, op, role) ==
    [log EXCEPT ![r] =
        [events |-> Append(@.events, [op |-> op, role |-> role]),
         early |-> IF bin[r] = "running" /\ op \in {"read", "remove", "return"}
                   THEN @.early \cup {op} ELSE @.early]]

\* fd, path = tempfile.mkstemp(dir=self.__temp_path), for the file of `role`
Mkstemp(r, role, next) ==
    LET name == FreshName(files)
    IN  /\ \E i \in 1..Len(TempNames) : TempNames[i] \notin files
        /\ files' = files \cup {name}
        /\ fds' = fds \cup {name}
        /\ content' = [content EXCEPT ![name] = <<>>]
        /\ owner' = [owner EXCEPT ![name] = r]
        /\ paths' = [paths EXCEPT ![r][role] = name]
        /\ created' = [created EXCEPT ![r] = @ \cup {name}]
        /\ log' = LogEvent(r, "mkstemp", role)
        /\ pc' = [pc EXCEPT ![r] = next]

\* dump_svmlight_file(x, y, path): raises on data it cannot write
Dump(r, role, next) ==
    LET name == paths[r][role]
    IN  /\ IF inp[r].bad = role
           THEN /\ pc' = [pc EXCEPT ![r] = "raised"]
                /\ UNCHANGED <<content, files, log>>
           ELSE /\ pc' = [pc EXCEPT ![r] = next]
                /\ content' = [content EXCEPT ![name] = <<"svmlight">>]
                /\ files' = files \cup {name}
                /\ log' = LogEvent(r, "write", role)

\* os.close(fd); os.remove(path)
CloseRemove(r, role, next) ==
    LET name == paths[r][role]
    IN  /\ fds' = fds \ {name}
        /\ IF name \in files
           THEN /\ files' = files \ {name}
                /\ content' = [content EXCEPT ![name] = <<>>]
                /\ owner' = [owner EXCEPT ![name] = NoRun]
                /\ log' = LogEvent(r, "remove", role)
                /\ pc' = [pc EXCEPT ![r] = next]
           ELSE /\ pc' = [pc EXCEPT ![r] = "raised"]
                /\ UNCHANGED <<files, content, owner, log>>

(***************************************************************************)
(* run, lines 143-182: temp files, data sets, the argument list            *)
(***************************************************************************)
\* what the caller passes: whether each validation argument is not None, and
\* which data set, if any, dump_svmlight_file cannot write
RunInputs ==
    [xv : BOOLEAN, yv : BOOLEAN, bad : {"none", "train", "test", "validation"}]
NoInput == [xv |-> FALSE, yv |-> FALSE, bad |-> "none"]

Arg(flag, val) == [flag |-> flag, val |-> val]

\* the flags of an argument list, in order
Flags(a) == [i \in 1..Len(a) |-> a[i].flag]

\* the value the argument list gives a flag, NoPath when it is not there
ArgVal(a, flag) ==
    IF \E i \in 1..Len(a) : a[i].flag = flag
    THEN a[CHOOSE i \in 1..Len(a) : a[i].flag = flag].val
    ELSE NoPath

\* run(self, ...) is entered on a constructed object
StartRun(r, o, i) ==
    /\ pc[r] = "idle"
    /\ ctor[o] = "ok"
    /\ self' = [self EXCEPT ![r] = o]
    /\ inp' = [inp EXCEPT ![r] = i]
    /\ pc' = [pc EXCEPT ![r] = "mk_train"]
    /\ UNCHANGED <<env_path, sh, files, fds, content, owner, varsObj, paths,
                   args, bin, rc, launches, created, result, log,
                   varsPreds, varsModel>>

\* line 143
MkTrain(r) ==
    /\ pc[r] = "mk_train"
    /\ Mkstemp(r, "train", "mk_test")
    /\ UNCHANGED <<env_path, sh, varsObj, self, inp, args, bin, rc, launches,
                   result, varsPreds, varsModel>>

\* line 144
MkTest(r) ==
    /\ pc[r] = "mk_test"
    /\ Mkstemp(r, "test", "mk_out")
    /\ UNCHANGED <<env_path, sh, varsObj, self, inp, args, bin, rc, launches,
                   result, varsPreds, varsModel>>

\* line 145
MkOut(r) ==
    /\ pc[r] = "mk_out"
    /\ Mkstemp(r, "out", "mk_model")
    /\ UNCHANGED <<env_path, sh, varsObj, self, inp, args, bin, rc, launches,
                   result, varsPreds, varsModel>>

\* line 146
MkModel(r) ==
    /\ pc[r] = "mk_model"
    /\ Mkstemp(r, "model", "dump_train")
    /\ UNCHANGED <<env_path, sh, varsObj, self, inp, args, bin, rc, launches,
                   result, varsPreds, varsModel>>

\* line 149
DumpTrain(r) ==
    /\ pc[r] = "dump_train"
    /\ Dump(r, "train", "dump_test")
    /\ UNCHANGED <<env_path, sh, fds, owner, varsObj, self, inp, paths, args,
                   bin, rc, launches, created, result,
                   varsPreds, varsModel>>

\* line 150
DumpTest(r) ==
    /\ pc[r] = "dump_test"
    /\ Dump(r, "test", "build")
    /\ UNCHANGED <<env_path, sh, fds, owner, varsObj, self, inp, paths, args,
                   bin, rc, launches, created, result,
                   varsPreds, varsModel>>

\* lines 153-163: the arguments every command has
BaseArgs(c, p) ==
    << Arg("libFM", "LIBFM_PATH"),
       Arg("-task", c.task),
       Arg("-train", p["train"]),
       Arg("-test", p["test"]),
       Arg("-dim", "k0,k1,k2"),
       Arg("-init_stdev", "init_stdev"),
       Arg("-iter", "num_iter"),
       Arg("-method", c.learning_method),
       Arg("-out", p["out"]),
       Arg("-verbosity", "verbose"),
       Arg("-save_model", p["model"]) >>

\* lines 153-168: the argument list, and with rlog a temp file for the log
BuildArgs(r) ==
    /\ pc[r] = "build"
    /\ IF Cfg(r).rlog
       THEN /\ Mkstemp(r, "rlog", "method")
            /\ args' = [args EXCEPT ![r] =
                            Append(BaseArgs(Cfg(r), paths[r]),
                                   Arg("-rlog", paths'[r]["rlog"]))]
       ELSE /\ args' = [args EXCEPT ![r] = BaseArgs(Cfg(r), paths[r])]
            /\ pc' = [pc EXCEPT ![r] = "method"]
            /\ UNCHANGED <<files, fds, content, owner, paths, created, log>>
    /\ UNCHANGED <<env_path, sh, varsObj, self, inp, bin, rc, launches,
                   result, varsPreds, varsModel>>

\* method arguments that give every method both flags
MethodArgsAll(method) ==
    <<Arg("-learn_rate", "learn_rate"), Arg("-regular", "r0,r1,r2")>>

\* lines 171-175: the arguments that only some learning methods take
MethodArgs(method) ==
    (IF method \in {"sgd", "sgda"}
     THEN <<Arg("-learn_rate", "learn_rate")>> ELSE <<>>)
    \o
    (IF method \in {"sgd", "sgda", "als"}
     THEN <<Arg("-regular", "r0,r1,r2")>> ELSE <<>>)

\* a validation test that is content with one of the two arguments
UsesValidationEither(method, i) == method = "sgda" /\ (i.xv \/ i.yv)

\* the condition of lines 179 and 237
UsesValidation(method, i) == method = "sgda" /\ (i.xv /\ i.yv)

\* lines 171-180: the method's arguments, and for sgda with validation data
\* a temp file for the validation set
AppendMethodArgs(r) ==
    /\ pc[r] = "method"
    /\ args' = [args EXCEPT ![r] = @ \o MethodArgs(Cfg(r).learning_method)]
    /\ IF UsesValidation(Cfg(r).learning_method, inp[r])
       THEN Mkstemp(r, "validation", "dump_validation")
       ELSE /\ pc' = [pc EXCEPT ![r] = "call"]
            /\ UNCHANGED <<files, fds, content, owner, paths, created, log>>
    /\ UNCHANGED <<env_path, sh, varsObj, self, inp, bin, rc, launches,
                   result, varsPreds, varsModel>>

\* lines 181-182
DumpValidation(r) ==
    /\ pc[r] = "dump_validation"
    /\ Dump(r, "validation", "call")
    /\ args' = IF inp[r].bad = "validation" THEN args
               ELSE [args EXCEPT ![r] =
                        Append(@, Arg("-validation", paths[r]["validation"]))]
    /\ UNCHANGED <<env_path, sh, fds, owner, varsObj, self, inp, paths,
                   bin, rc, launches, created, result,
                   varsPreds, varsModel>>


(***************************************************************************)
(* run, lines 188-191: the command is run through the shell                *)
(***************************************************************************)
\* /bin/sh under call(args, shell=True): bash takes "cmd &> file" as a
\* redirection of both streams, a POSIX shell such as dash takes it as
\* "cmd &" followed by "> file"
Shells == {"bash", "posix"}

\* whether the shell puts the command in the background and returns at once
Detached(a, shell) == shell = "posix" /\ \E i \in 1..Len(a) : a[i].flag = "&>"

\* the data sets the command names, which libFM reads
InputPaths(a) ==
    {ArgVal(a, "-train"), ArgVal(a, "-test"), ArgVal(a, "-validation")} \ {NoPath}

\* the files the command names, which libFM writes
OutputPaths(a) ==
    {ArgVal(a, "-out"), ArgVal(a, "-save_model"), ArgVal(a, "-rlog")} \ {NoPath}

GoodOut == <<"1", NL, "2", NL>>
RlogTable == <<"rmse", NL, "1", NL>>
\* what one execution of libFM leaves behind: its exit code (127 is the
\* shell's when the binary cannot be launched) and, if it writes them, the
\* texts of the predictions file, the model dump and the log
BinOutcomes ==
    { [rc |-> 0, writes |-> TRUE, out |-> GoodOut, model |-> ExampleDump],
      [rc |-> 0, writes |-> TRUE, out |-> <<"x", NL>>, model |-> ExampleDump],
      [rc |-> 0, writes |-> TRUE, out |-> GoodOut, model |-> <<"x", NL>>],
      [rc |-> 1, writes |-> FALSE, out |-> <<>>, model |-> <<>>],
      [rc |-> 127, writes |-> FALSE, out |-> <<>>, model |-> <<>>] }

NotExited == -1

\* lines 185-186: with silent the redirection is added to the command
Command(a, silent) == IF silent THEN Append(a, Arg("&>", "/dev/null")) ELSE a

\* lines 185-191: args = ' '.join(args); call(args, shell=True)
Call(r) ==
    LET cmd == Command(args[r], Cfg(r).silent)
    IN  /\ pc[r] = "call"
        /\ args' = [args EXCEPT ![r] = cmd]
        /\ launches' = [launches EXCEPT ![r] = @ + 1]
        /\ bin' = [bin EXCEPT ![r] = "running"]
        /\ log' = LogEvent(r, "launch", "")
        /\ pc' = [pc EXCEPT ![r] = IF Detached(cmd, sh) THEN "read_out" ELSE "wait"]
        /\ UNCHANGED <<env_path, sh, files, fds, content, owner, varsObj, self,
                       inp, paths, rc, created, result, varsPreds, varsModel>>

\* libFM ends: it has written its files under the names of the command line
\* and exits; a call that waits for it returns
BinaryFinish(r, oc) ==
    LET a == args[r]
        targets == IF oc.writes THEN OutputPaths(a) ELSE {}
        textOf(n) == IF n = ArgVal(a, "-out") THEN oc.out
                     ELSE IF n = ArgVal(a, "-save_model") THEN oc.model
                     ELSE RlogTable
    IN  /\ bin[r] = "running"
        /\ bin' = [bin EXCEPT ![r] = "done"]
        /\ rc' = [rc EXCEPT ![r] = oc.rc]
        /\ files' = files \cup targets
        /\ content' = [n \in NameSet |-> IF n \in targets THEN textOf(n) ELSE content[n]]
        /\ pc' = [pc EXCEPT ![r] = IF @ = "wait" THEN "read_out" ELSE @]
        /\ UNCHANGED <<env_path, sh, fds, owner, varsObj, self, inp, paths, args,
                       log, launches, created, result,
                       varsPreds, varsModel>>

(***************************************************************************)
(* run, lines 193-234: the result files are read                           *)
(***************************************************************************)
EmptyResult ==
    [predictions |-> <<>>, global_bias |-> None, weights |-> <<>>,
     pairwise_interactions |-> <<>>, rlog |-> None]

\* open(path) and read; a missing file or a failed conversion raises
ReadFile(r, role, next, ok, res) ==
    LET name == paths[r][role]
    IN  /\ IF name \in files /\ ok
           THEN /\ result' = [result EXCEPT ![r] = res]
                /\ log' = LogEvent(r, "read", role)
                /\ pc' = [pc EXCEPT ![r] = next]
           ELSE /\ pc' = [pc EXCEPT ![r] = "raised"]
                /\ UNCHANGED <<result, log>>

\* lines 193-197
ReadOut(r) ==
    LET p == ParsePreds(content[paths[r]["out"]])
    IN  /\ pc[r] = "read_out"
        /\ ReadFile(r, "out", "read_model", p.ok,
                    [result[r] EXCEPT !.predictions = p.preds])
        /\ UNCHANGED <<env_path, sh, files, fds, content, owner, varsObj, self,
                       inp, paths, args, bin, rc, launches, created,
                       varsPreds, varsModel>>

\* lines 203-224
ReadModel(r) ==
    LET m == ParseModel(content[paths[r]["model"]])
    IN  /\ pc[r] = "read_model"
        /\ ReadFile(r, "model", "read_rlog", m.ok,
                    [result[r] EXCEPT !.global_bias = m.global_bias,
                                      !.weights = m.weights,
                                      !.pairwise_interactions = m.pairwise_interactions])
        /\ UNCHANGED <<env_path, sh, files, fds, content, owner, varsObj, self,
                       inp, paths, args, bin, rc, launches, created,
                       varsPreds, varsModel>>

\* where run goes after the log: lines 237-239 only with a validation set
AfterRlog(r) ==
    IF UsesValidation(Cfg(r).learning_method, inp[r])
    THEN "rm_validation" ELSE "rm_train"

\* lines 227-230 and 233-234: pd.read_csv raises on a file without a header
ReadRlog(r) ==
    /\ pc[r] = "read_rlog"
    /\ IF Cfg(r).rlog
       THEN ReadFile(r, "rlog", "rm_rlog", content[paths[r]["rlog"]] # <<>>,
                     [result[r] EXCEPT !.rlog = <<"DataFrame">>])
       ELSE /\ result' = [result EXCEPT ![r].rlog = None]
            /\ pc' = [pc EXCEPT ![r] = AfterRlog(r)]
            /\ log' = log
    /\ UNCHANGED <<env_path, sh, files, fds, content, owner, varsObj, self,
                   inp, paths, args, bin, rc, launches, created,
                   varsPreds, varsModel>>

(***************************************************************************)
(* run, lines 231-258: the temp files are removed, the result returned     *)
(***************************************************************************)
\* lines 231-232
RmRlog(r) ==
    /\ pc[r] = "rm_rlog"
    /\ CloseRemove(r, "rlog", AfterRlog(r))
    /\ UNCHANGED <<env_path, sh, varsObj, self, inp, paths, args, bin,
                   rc, launches, created, result,
                   varsPreds, varsModel>>

\* lines 237-239
RmValidation(r) ==
    /\ pc[r] = "rm_validation"
    /\ CloseRemove(r, "validation", "rm_train")
    /\ UNCHANGED <<env_path, sh, varsObj, self, inp, paths, args, bin,
                   rc, launches, created, result,
                   varsPreds, varsModel>>

\* lines 242-243
RmTrain(r) ==
    /\ pc[r] = "rm_train"
    /\ CloseRemove(r, "train", "rm_test")
    /\ UNCHANGED <<env_path, sh, varsObj, self, inp, paths, args, bin,
                   rc, launches, created, result,
                   varsPreds, varsModel>>

\* lines 244-245
RmTest(r) ==
    /\ pc[r] = "rm_test"
    /\ CloseRemove(r, "test", "rm_model")
    /\ UNCHANGED <<env_path, sh, varsObj, self, inp, paths, args, bin,
                   rc, launches, created, result,
                   varsPreds, varsModel>>

\* lines 246-247
RmModel(r) ==
    /\ pc[r] = "rm_model"
    /\ CloseRemove(r, "model", "rm_out")
    /\ UNCHANGED <<env_path, sh, varsObj, self, inp, paths, args, bin,
                   rc, launches, created, result,
                   varsPreds, varsModel>>

\* lines 248-249
RmOut(r) ==
    /\ pc[r] = "rm_out"
    /\ CloseRemove(r, "out", "return")
    /\ UNCHANGED <<env_path, sh, varsObj, self, inp, paths, args, bin,
                   rc, launches, created, result,
                   varsPreds, varsModel>>

\* lines 252-258
Return(r) ==
    /\ pc[r] = "return"
    /\ pc' = [pc EXCEPT ![r] = "returned"]
    /\ log' = LogEvent(r, "return", "")
    /\ UNCHANGED <<env_path, sh, files, fds, content, owner, varsObj, self, inp,
                   paths, args, bin, rc, launches, created, result,
                   varsPreds, varsModel>>

\* the steps of one run call
Step(r) ==
    \/ MkTrain(r) \/ MkTest(r) \/ MkOut(r) \/ MkModel(r)
    \/ DumpTrain(r) \/ DumpTest(r)
    \/ BuildArgs(r) \/ AppendMethodArgs(r) \/ DumpValidation(r) \/ Call(r)
    \/ ReadOut(r) \/ ReadModel(r) \/ ReadRlog(r)
    \/ RmRlog(r) \/ RmValidation(r)
    \/ RmTrain(r) \/ RmTest(r) \/ RmModel(r) \/ RmOut(r) \/ Return(r)

(***************************************************************************)
(* Specifications                                                          *)
(***************************************************************************)
FilesIdle ==
    /\ files = {}
    /\ fds = {}
    /\ content = [n \in NameSet |-> <<>>]
    /\ owner = [n \in NameSet |-> NoRun]

RunsIdle ==
    /\ pc = [r \in Runs |-> "idle"]
    /\ self = [r \in Runs |-> "o1"]
    /\ inp = [r \in Runs |-> NoInput]
    /\ paths = [r \in Runs |-> [role \in Roles |-> NoPath]]
    /\ args = [r \in Runs |-> <<>>]
    /\ bin = [r \in Runs |-> "none"]
    /\ rc = [r \in Runs |-> NotExited]
    /\ launches = [r \in Runs |-> 0]
    /\ created = [r \in Runs |-> {}]
    /\ result = [r \in Runs |-> EmptyResult]
    /\ log = [r \in Runs |-> [events |-> <<>>, early |-> {}]]

LifeIdle ==
    /\ FilesIdle
    /\ fm = [o \in Objs |-> NoObject]
    /\ ctor = [o \in Objs |-> "none"]
    /\ RunsIdle

\* one object, one run call, every configuration and input
Init ==
    /\ env_path \in BOOLEAN
    /\ sh \in Shells
    /\ LifeIdle
    /\ PredsIdle
    /\ ModelIdle

Next ==
    \/ \E a \in CtorArgs : Construct("o1", a)
    \/ \E i \in RunInputs : StartRun("r1", "o1", i)
    \/ Step("r1")
    \/ \E oc \in BinOutcomes : BinaryFinish("r1", oc)

Spec == Init /\ [][Next]_vars

\* two constructed objects and two run calls that interleave, on the same
\* object or on different ones
ConcFields ==
    [o \in Objs |->
        IF o = "o1"
        THEN FieldsOf([task |-> "regression", learning_method |-> "mcmc",
                       rlog |-> FALSE, silent |-> TRUE])
        ELSE FieldsOf([task |-> "classification", learning_method |-> "sgda",
                       rlog |-> TRUE, silent |-> FALSE])]
ConcInputs == {i \in RunInputs : i.xv /\ i.yv /\ i.bad = "none"}
ConcOutcomes == {oc \in BinOutcomes : oc.out = GoodOut /\ oc.model = ExampleDump}

InitConc ==
    /\ env_path = TRUE
    /\ sh \in Shells
    /\ FilesIdle
    /\ fm = ConcFields
    /\ ctor = [o \in Objs |-> "ok"]
    /\ RunsIdle
    /\ PredsIdle
    /\ ModelIdle

NextConc ==
    \/ \E i \in ConcInputs : StartRun("r1", "o1", i)
    \/ \E i \in ConcInputs : StartRun("r2", "o2", i)
    \/ \E r \in Runs : Step(r)
    \/ \E r \in Runs, oc \in ConcOutcomes : BinaryFinish(r, oc)

SpecConc == InitConc /\ [][NextConc]_vars

(***************************************************************************)
(* Specifications of the two parsers alone, over every bounded file        *)
(***************************************************************************)
InitPreds ==
    /\ out_read \in OutTexts
    /\ segs = <<>>
    /\ preds = <<>>
    /\ ppc = "read"
    /\ ModelIdle
    /\ env_path = TRUE
    /\ sh = "bash"
    /\ LifeIdle

NextPreds ==
    \/ PredsRead /\ UNCHANGED <<varsEnv, varsObj, varsRun, varsModel>>
    \/ PredsStep /\ UNCHANGED <<varsEnv, varsObj, varsRun, varsModel>>
    \/ PredsEnd /\ UNCHANGED <<varsEnv, varsObj, varsRun, varsModel>>

SpecPreds == InitPreds /\ [][NextPreds]_vars

InitModel ==
    /\ model_text \in ModelTexts
    /\ lines = <<>>
    /\ done_lines = <<>>
    /\ out_iter = InitialSection
    /\ global_bias = None
    /\ weights = <<>>
    /\ pairwise_interactions = <<>>
    /\ mpc = "read"
    /\ PredsIdle
    /\ env_path = TRUE
    /\ sh = "bash"
    /\ LifeIdle

NextModel ==
    \/ ModelOpen /\ UNCHANGED <<varsEnv, varsObj, varsRun, varsPreds>>
    \/ ModelLine /\ UNCHANGED <<varsEnv, varsObj, varsRun, varsPreds>>
    \/ ModelEnd /\ UNCHANGED <<varsEnv, varsObj, varsRun, varsPreds>>

SpecModel == InitModel /\ [][NextModel]_vars

(***************************************************************************)
(* Files described without the parsers: lines, sections, expected values   *)
(***************************************************************************)
RECURSIVE SortedSeq(_)
\* the elements of a finite set of integers, ascending
SortedSeq(S) ==
    IF S = {} THEN <<>>
    ELSE LET m == CHOOSE x \in S : \A y \in S : x <= y
         IN  <<m>> \o SortedSeq(S \ {m})

\* positions where a non-empty line of text s begins
LineStarts(s) ==
    {i \in 1..Len(s) : s[i] # NL /\ (i = 1 \/ s[i - 1] = NL)}

\* the line of s that begins at position i, without its newline
LineAt(s, i) ==
    LET stop == CHOOSE j \in i..Len(s) :
                    /\ \A k \in i..j : s[k] # NL
                    /\ (j = Len(s) \/ s[j + 1] = NL)
    IN  SubSeq(s, i, stop)

IsMarkerLine(line) ==
    /\ StartsWithHash(line)
    /\ (Contains(line, GB) \/ Contains(line, UN) \/ Contains(line, PW))

\* the section a marker line selects
SectionOfMarker(line) ==
    CASE Contains(line, GB) -> 0
      [] ~Contains(line, GB) /\ Contains(line, UN) -> 1
      [] OTHER -> 2

\* the section in force when line i of ls is reached: that of the last marker
\* line before it, the global bias when there is none
SectionAt(ls, i) ==
    LET before == {j \in 1..(i - 1) : j <= Len(ls) /\ IsMarkerLine(ls[j])}
    IN  IF before = {} THEN 0
        ELSE SectionOfMarker(ls[CHOOSE j \in before : \A k \in before : k <= j])

\* the lines of ls that do not begin with '#' and fall in section sec, in order
DataLinesOf(ls, sec) ==
    SortedSeq({i \in 1..Len(ls) : ~StartsWithHash(ls[i]) /\ SectionAt(ls, i) = sec})

\* whether data line i of ls converts in the section it falls in
WellFormedAt(ls, i) ==
    IF SectionAt(ls, i) = 2 THEN RowOf(ls[i]).ok ELSE Float(ls[i]).ok

\* some line beginning with '#' carries the marker text
MarkerPresent(ls, marker) ==
    \E i \in 1..Len(ls) : StartsWithHash(ls[i]) /\ Contains(ls[i], marker)

(***************************************************************************)
(* C7  Predictions parsing yields one value per non-empty line of the      *)
(* output file, in file order, and skips empty lines wherever they are:    *)
(* the number of predictions is the number of non-empty lines.  It raises  *)
(* only when a non-empty line is not a number.                             *)
(***************************************************************************)
C7_PredsPerNonEmptyLine ==
    LET starts == SortedSeq(LineStarts(out_read))
    IN  /\ ppc = "done" =>
              /\ Len(preds) = Len(starts)
              /\ \A k \in 1..Len(starts) :
                     preds[k] = Float(LineAt(out_read, starts[k])).val
        /\ ppc = "raised" =>
              \E k \in 1..Len(starts) : ~Float(LineAt(out_read, starts[k])).ok
        /\ (ppc = "done" /\ out_read = ExampleOut) => preds = <<1, 2>>

C7_Witness ==
    /\ ppc = "done"
    /\ out_read = <<"1", NL, NL, "2">>
    /\ preds = <<1, 2>>

(***************************************************************************)
(* C4  The model dump parser is a machine with the states bias (0), unary  *)
(* (1), pairwise (2).  It starts in bias, its state after any prefix of    *)
(* the file is the one selected by the last marker line read, every line   *)
(* not beginning with '#' goes to the field of the state in force and to   *)
(* no other, weights and rows keep file order, and the example dump gives  *)
(* bias 5, weights [1, 2], rows [[1, 2], [3, 4]].                          *)
(***************************************************************************)
C4_ModelDumpStateMachine ==
    LET ls == done_lines
        n == Len(ls)
        good == IF mpc = "raised" THEN SubSeq(ls, 1, n - 1) ELSE ls
        d0 == DataLinesOf(good, 0)
        d1 == DataLinesOf(good, 1)
        d2 == DataLinesOf(good, 2)
    IN  /\ mpc = "read" => out_iter = 0
        /\ mpc \in {"loop", "done", "raised"} =>
              /\ out_iter = SectionAt(ls, n + 1)
              /\ global_bias = IF d0 = <<>> THEN None
                               ELSE <<Float(good[d0[Len(d0)]]).val>>
              /\ weights = [k \in 1..Len(d1) |-> Float(good[d1[k]]).val]
              /\ pairwise_interactions =
                     [k \in 1..Len(d2) |-> RowOf(good[d2[k]]).val]
        /\ mpc = "raised" =>
              ~StartsWithHash(ls[n]) /\ ~WellFormedAt(ls, n)
        /\ (mpc = "done" /\ model_text = ExampleDump) =>
              /\ global_bias = <<5>>
              /\ weights = <<1, 2>>
              /\ pairwise_interactions = << <<1, 2>>, <<3, 4>> >>

C4_Witness ==
    /\ mpc = "done"
    /\ model_text = ExampleDump
    /\ out_iter = 2
    /\ Len(pairwise_interactions) = 2

CommandBuilt(r) == pc[r] = "call" \/ launches[r] >= 1

\* how many times a flag occurs in the command of run r
FlagCount(r, flag) ==
    Cardinality({i \in 1..Len(args[r]) : args[r][i].flag = flag})

MandatoryFlags ==
    {"-task", "-train", "-test", "-dim", "-init_stdev", "-iter", "-method",
     "-out", "-verbosity", "-save_model"}

\* positions of an operation on the file of a role in the record of run r
EventsOf(r, op, role) ==
    {i \in 1..Len(log[r].events) :
         log[r].events[i].op = op /\ log[r].events[i].role = role}

\* the paths run r has been given by mkstemp and has not yet removed
Pending(r) ==
    {paths[r][role] : role \in {ro \in Roles : /\ EventsOf(r, "mkstemp", ro) # {}
                                              /\ EventsOf(r, "remove", ro) = {}}}

\* the file a step of run r at this point of the code opens, writes or removes,
\* if the run has that file
RoleAt(p) ==
    CASE p = "dump_train" -> "train"
      [] p = "dump_test" -> "test"
      [] p = "dump_validation" -> "validation"
      [] p = "read_out" -> "out"
      [] p = "read_model" -> "model"
      [] p = "read_rlog" -> "rlog"
      [] p = "rm_rlog" -> "rlog"
      [] p = "rm_validation" -> "validation"
      [] p = "rm_train" -> "train"
      [] p = "rm_test" -> "test"
      [] p = "rm_model" -> "model"
      [] p = "rm_out" -> "out"
      [] OTHER -> ""

(***************************************************************************)
(* C1  However a run call ends, by returning or by raising, none of the    *)
(* temp files it created with mkstemp is left open or left on disk.        *)
(***************************************************************************)
C1_NoTempFileOutlivesRun ==
    \A r \in Runs :
        pc[r] \in {"returned", "raised"} =>
            /\ created[r] \cap files = {}
            /\ created[r] \cap fds = {}

(***************************************************************************)
(* C2  The command of a run holds each mandatory flag exactly once,        *)
(* -learn_rate once if the method is sgd or sgda and not at all otherwise, *)
(* -regular once if the method is sgd, sgda or als and not at all          *)
(* otherwise, -rlog once if rlog is enabled and not at all otherwise.      *)
(***************************************************************************)
C2_CommandFlags ==
    \A r \in Runs :
        CommandBuilt(r) =>
            LET method == fm[self[r]].learning_method
            IN  /\ \A f \in MandatoryFlags : FlagCount(r, f) = 1
                /\ FlagCount(r, "-learn_rate") =
                       IF method = "sgd" \/ method = "sgda" THEN 1 ELSE 0
                /\ FlagCount(r, "-regular") =
                       IF method = "sgd" \/ method = "sgda" \/ method = "als"
                       THEN 1 ELSE 0
                /\ FlagCount(r, "-rlog") = IF fm[self[r]].rlog THEN 1 ELSE 0

C2_Witness ==
    /\ pc["r1"] = "call"
    /\ fm["o1"].learning_method = "als"
    /\ fm["o1"].rlog
    /\ FlagCount("r1", "-regular") = 1
    /\ FlagCount("r1", "-learn_rate") = 0
    /\ FlagCount("r1", "-rlog") = 1

(***************************************************************************)
(* C3  With LIBFM_PATH missing every constructor call raises and leaves no *)
(* object; no temp file is ever created, no run call is entered and no     *)
(* subprocess is launched.                                                 *)
(***************************************************************************)
C3_MissingLibfmPath ==
    ~env_path =>
        /\ \A o \in Objs : ctor[o] \in {"none", "raised"} /\ fm[o] = NoObject
        /\ files = {}
        /\ fds = {}
        /\ \A r \in Runs : pc[r] = "idle" /\ launches[r] = 0 /\ created[r] = {}

C3_Witness ==
    /\ ~env_path
    /\ ctor["o1"] = "raised"
    /\ fm["o1"] = NoObject

(***************************************************************************)
(* C6  A run gets a validation temp file and a -validation flag exactly    *)
(* when the method is sgda and both validation arguments are given: the    *)
(* file is never created otherwise, and the finished command holds the     *)
(* flag once in that case and not at all in any other.                     *)
(***************************************************************************)
C6_ValidationFlag ==
    \A r \in Runs :
        LET wanted == /\ fm[self[r]].learning_method = "sgda"
                      /\ inp[r].xv
                      /\ inp[r].yv
        IN  /\ paths[r]["validation"] # NoPath => wanted
            /\ FlagCount(r, "-validation") > 0 => wanted
            /\ CommandBuilt(r) =>
                   /\ FlagCount(r, "-validation") = IF wanted THEN 1 ELSE 0
                   /\ wanted => /\ paths[r]["validation"] \in created[r]
                                /\ ArgVal(args[r], "-validation") = paths[r]["validation"]
                                /\ EventsOf(r, "write", "validation") # {}

C6_Witness ==
    /\ pc["r1"] = "call"
    /\ fm["o1"].learning_method = "sgda"
    /\ inp["r1"].xv
    /\ ~inp["r1"].yv
    /\ FlagCount("r1", "-validation") = 0
    /\ paths["r1"]["validation"] = NoPath

(***************************************************************************)
(* C8  A run call does not return a result when libFM exited non-zero or   *)
(* could not be launched, and it runs the command at most once.            *)
(***************************************************************************)
C8_NonZeroExitFailsRun ==
    \A r \in Runs :
        /\ launches[r] <= 1
        /\ pc[r] = "returned" => rc[r] \in {0, NotExited}

(***************************************************************************)
(* C9  Run calls that interleave share no temp file: the paths two calls   *)
(* hold are disjoint, every file a call (or the libFM it launched) opens,  *)
(* writes or removes is one that call created, and no step changes a       *)
(* field of an FM object.                                                  *)
(***************************************************************************)
C9_NoSharedTempFiles ==
    /\ [](\A r \in Runs, q \in Runs :
              (r # q /\ pc[r] \notin {"idle", "returned", "raised"}
                     /\ pc[q] \notin {"idle", "returned", "raised"})
                  => Pending(r) \cap Pending(q) = {})
    /\ [][\A r \in Runs :
              /\ (pc'[r] # pc[r] /\ RoleAt(pc[r]) # ""
                                   /\ paths[r][RoleAt(pc[r])] # NoPath)
                     => owner[paths[r][RoleAt(pc[r])]] = r
              /\ (bin[r] = "none" /\ bin'[r] = "running")
                     => \A n \in InputPaths(args[r]) : owner[n] = r
              /\ (bin[r] = "running" /\ bin'[r] = "done")
                     => \A n \in NameSet :
                            (content'[n] # content[n] \/ n \in files' \ files)
                                => owner[n] \in {r, NoRun}
              /\ fm' = fm]_vars

(***************************************************************************)
(* C10  Within a run call: the data sets are written before libFM is       *)
(* launched; libFM has ended before any file is read or removed and        *)
(* before the call returns; the predictions, the model dump and the log    *)
(* are read before they are removed and never after; every temp file is    *)
(* removed before the result is returned.                                  *)
(***************************************************************************)
C10_RunOrder ==
    \A r \in Runs :
        LET E == log[r].events
            Before(op1, role1, op2, role2) ==
                \A j \in EventsOf(r, op2, role2) :
                    \E i \in EventsOf(r, op1, role1) : i < j
        IN  /\ Before("write", "train", "launch", "")
            /\ Before("write", "test", "launch", "")
            /\ EventsOf(r, "mkstemp", "validation") # {}
                   => Before("write", "validation", "launch", "")
            /\ log[r].early = {}
            /\ \A role \in {"out", "model", "rlog"} :
                   /\ Before("read", role, "remove", role)
                   /\ \A i \in EventsOf(r, "remove", role) :
                          \A j \in EventsOf(r, "read", role) : j < i
            /\ \A role \in Roles :
                   EventsOf(r, "mkstemp", role) # {}
                       => Before("remove", role, "return", "")

====
